---------------------------- MODULE Spec2Model ----------------------------
(***************************************************************************)
(* A model of qexpy's Plot object (src/qexpy/plotting.py): the state a     *)
(* Plot accumulates (datasets, user functions, colors, ranges, labels),    *)
(* the two process-wide flags it touches (qe.Measurement.minmax_n and      *)
(* qu.bokeh_ouput_notebook_called) and one action per public method.       *)
(*                                                                         *)
(* Coordinates are integers in units of 0.5, so that the margins (0.5)     *)
(* and the intercept bound (-0.5) of the source are whole numbers.         *)
(* A Python exception is recorded in last.exc; the assignments the method  *)
(* made before raising are kept, as in Python.                             *)
(***************************************************************************)
EXTENDS Integers, Sequences, FiniteSets, TLC

VARIABLES
    datasets,               \* self.datasets: the XYDataSets, in insertion order
    datasets_colors,        \* self.datasets_colors
    color_count,            \* self.color_count
    x_range,                \* self.x_range (a list)
    y_range,                \* self.y_range (a list)
    user_functions,         \* self.user_functions
    user_functions_pars,    \* self.user_functions_pars
    user_functions_names,   \* self.user_functions_names
    user_functions_colors,  \* self.user_functions_colors
    user_functions_count,   \* self.user_functions_count
    labels,                 \* self.labels (a dict)
    show_residuals,         \* self.show_residuals
    bkfigure,               \* self.bkfigure (id 0: the attribute is not set)
    bkres,                  \* self.bkres    (id 0: the attribute is not set)
    minmax_n,               \* qe.Measurement.minmax_n (process-wide)
    bokeh_ouput_notebook_called,  \* qu.bokeh_ouput_notebook_called (process-wide)
    output_notebook_calls,  \* how often bi.output_notebook() was called
    bokeh_output,           \* the output channel bokeh.io was last given
    in_notebook,            \* what qu.in_notebook() answers in this process
    figures_created,        \* how many figures bp.figure() has made
    last,                   \* the last call: its name, the messages it
                            \* printed, the exception it raised and the
                            \* figure it gave bp.show()
    function_extents        \* history: the y extent, margin included, that
                            \* add_function found for each function it added

plot_vars == <<datasets, datasets_colors, color_count, x_range, y_range,
               user_functions, user_functions_pars, user_functions_names,
               user_functions_colors, user_functions_count, labels,
               show_residuals, bkfigure, bkres>>

process_vars == <<minmax_n, bokeh_ouput_notebook_called, output_notebook_calls,
                  bokeh_output, in_notebook, figures_created>>

vars == <<plot_vars, process_vars, last, function_extents>>

----------------------------------------------------------------------------
(* Bounds of the model *)

\* datasets and functions one Plot is given after its constructor (Spec)
MaxItems == 1
\* figures bp.figure() makes in one run
MaxFigures == 3
\* automatic color requests one Plot makes in SpecPalette
MaxAutoColors == 10

----------------------------------------------------------------------------
(* Values *)

None == "None"

\* self.x_range_margin, self.y_range_margin: 0.5
x_range_margin == 1
y_range_margin == 1

\* the x the linear fit is shown down to: -0.5
LinearFitXMin == -1

\* bokeh.palettes.Set1_9: nine colors
color_palette ==
    << "Set1_9[0]", "Set1_9[1]", "Set1_9[2]", "Set1_9[3]", "Set1_9[4]",
       "Set1_9[5]", "Set1_9[6]", "Set1_9[7]", "Set1_9[8]" >>

\* The XYDataSets the user hands in: the extent of the data, and the line
\* offset + slope*x a linear fit of it gives (slope 1, -1 and 0).
DataSets ==
    { [name |-> "A", xmin |-> 4, xmax |-> 6, ymin |-> 4, ymax |-> 6,
       offset |-> 0, slope |-> 1, nfits |-> 0],
      [name |-> "B", xmin |-> 2, xmax |-> 4, ymin |-> 2, ymax |-> 4,
       offset |-> 6, slope |-> -1, nfits |-> 0],
      [name |-> "C", xmin |-> 2, xmax |-> 8, ymin |-> 6, ymax |-> 6,
       offset |-> 6, slope |-> 0, nfits |-> 0] }

\* The functions the user hands in: f_id(x) = x and f_lin(x, a, b) = a + b*x
Functions == {"f_id", "f_lin"}

\* the datasets SpecPalette adds: a narrow and a wide one
PaletteDataSets == {d \in DataSets : d.name \in {"A", "C"}}

\* The forms of the pars argument of add_function
NoPars == [kind |-> "None", vals |-> <<>>]
ParsArgs ==
    { NoPars,
      [kind |-> "Measurement_Array", vals |-> <<0, 2>>],
      [kind |-> "list", vals |-> <<2, -1>>],
      [kind |-> "scalar", vals |-> <<3>>] }

\* The forms of a range argument of set_plot_range
NoRange == [kind |-> "None", val |-> <<>>]
RangeArgs ==
    { NoRange,
      [kind |-> "list", val |-> <<0, 10>>],
      [kind |-> "list", val |-> <<0, 5, 10>>],
      [kind |-> "scalar", val |-> <<7>>] }

Colors == {None, "black"}
Names == {None, "g"}
LabelArgs == {None, "user"}
Outputs == {"inline", "file"}

Max2(a, b) == IF a >= b THEN a ELSE b
Min2(a, b) == IF a <= b THEN a ELSE b

NoFigure == [id |-> 0]

\* a call that printed nothing, raised nothing and gave bp.show() no figure
NoCall(op) == [op |-> op, msg |-> <<>>, exc |-> None, shown |-> 0]

----------------------------------------------------------------------------
(* Collaborators: qexpy.fitting.XYDataSet *)

get_x_range(dataset, margin) == <<dataset.xmin - margin, dataset.xmax + margin>>

get_y_range(dataset, margin) == <<dataset.ymin - margin, dataset.ymax + margin>>

\* dataset.clear_fits() followed by dataset.fit("linear"): one recorded fit
linear_fit(dataset) == [dataset EXCEPT !.nfits = 1]

\* dataset.fit_function[-1](x, *pars.get_means()) of the linear fit
fit_function(dataset, x) == dataset.offset + dataset.slope * x

----------------------------------------------------------------------------
(* Plot._get_color_from_palette: the counter after the call, and the color *)
(* returned or the IndexError of indexing past the palette                 *)

\* a variant that indexes the palette with the counter as incremented
get_color_from_palette_skipping(count) ==
    [ count  |-> count + 1,
      raised |-> ~(count + 2 <= Len(color_palette)),
      color  |-> IF count + 2 <= Len(color_palette)
                 THEN color_palette[count + 2] ELSE None ]

get_color_from_palette(count) ==
    [ count  |-> count + 1,
      raised |-> ~(count + 1 <= Len(color_palette)),
      color  |-> IF count + 1 <= Len(color_palette)
                 THEN color_palette[count + 1] ELSE None ]

(* Plot.set_range_from_dataset *)
set_range_from_dataset(dataset) ==
    [ x_range |-> get_x_range(dataset, x_range_margin),
      y_range |-> get_y_range(dataset, y_range_margin) ]

(* Plot.__init__: the fields of a new Plot built on `dataset` *)
Plot(dataset, data_name) ==
    LET alloc == get_color_from_palette(0)
        rng   == set_range_from_dataset(dataset)
    IN  [ datasets        |-> <<dataset>>,
          color_count     |-> alloc.count,
          datasets_colors |-> <<alloc.color>>,
          x_range         |-> rng.x_range,
          y_range         |-> rng.y_range,
          labels          |-> [k \in {"title", "xtitle", "ytitle", "data"} |->
                                 CASE k = "title"  -> dataset.name
                                   [] k = "xtitle" -> "x [unitless]"
                                   [] k = "ytitle" -> "y [unitless]"
                                   [] k = "data"   -> data_name] ]

Init ==
    /\ \E d \in DataSets : \E n \in {None} :
          /\ datasets = Plot(d, n).datasets
          /\ color_count = Plot(d, n).color_count
          /\ datasets_colors = Plot(d, n).datasets_colors
          /\ x_range = Plot(d, n).x_range
          /\ y_range = Plot(d, n).y_range
          /\ labels = Plot(d, n).labels
    /\ show_residuals = FALSE
    /\ user_functions_count = 0
    /\ user_functions = <<>>
    /\ user_functions_pars = <<>>
    /\ user_functions_names = <<>>
    /\ user_functions_colors = <<>>
    /\ bkfigure = NoFigure
    /\ bkres = NoFigure
    /\ minmax_n = 100
    /\ bokeh_ouput_notebook_called = FALSE
    /\ output_notebook_calls = 0
    /\ bokeh_output = None
    /\ in_notebook \in BOOLEAN
    /\ figures_created = 0
    /\ last = NoCall("__init__")
    /\ function_extents = <<>>

(* A further Plot is constructed in the same process *)
NewPlot(dataset, data_name) ==
    /\ datasets' = Plot(dataset, data_name).datasets
    /\ color_count' = Plot(dataset, data_name).color_count
    /\ datasets_colors' = Plot(dataset, data_name).datasets_colors
    /\ x_range' = Plot(dataset, data_name).x_range
    /\ y_range' = Plot(dataset, data_name).y_range
    /\ labels' = Plot(dataset, data_name).labels
    /\ show_residuals' = FALSE
    /\ user_functions_count' = 0
    /\ user_functions' = <<>>
    /\ user_functions_pars' = <<>>
    /\ user_functions_names' = <<>>
    /\ user_functions_colors' = <<>>
    /\ bkfigure' = NoFigure
    /\ bkres' = NoFigure
    /\ last' = NoCall("__init__")
    /\ function_extents' = <<>>
    /\ UNCHANGED process_vars

----------------------------------------------------------------------------
(* Plot.add_dataset *)

\* the range widened to hold `r`: lines 179-187
widen(range, r) ==
    LET lo == IF r[1] < range[1] THEN [range EXCEPT ![1] = r[1]] ELSE range
    IN  IF r[2] > lo[2] THEN [lo EXCEPT ![2] = r[2]] ELSE lo

AddDataset(dataset, color, name) ==
    LET alloc == get_color_from_palette(color_count)
        named == IF name # None THEN [dataset EXCEPT !.name = name] ELSE dataset
        call  == NoCall("add_dataset")
    IN  IF color = None /\ alloc.raised
        THEN \* the dataset is appended, then the palette lookup raises
             /\ datasets' = Append(datasets, dataset)
             /\ color_count' = alloc.count
             /\ last' = [call EXCEPT !.exc = "IndexError"]
             /\ UNCHANGED <<datasets_colors, x_range, y_range, user_functions,
                            user_functions_pars, user_functions_names,
                            user_functions_colors, user_functions_count,
                            labels, show_residuals, bkfigure, bkres, process_vars,
                            function_extents>>
        ELSE /\ datasets' = Append(datasets, named)
             /\ datasets_colors' =
                   Append(datasets_colors, IF color = None THEN alloc.color ELSE color)
             /\ color_count' = IF color = None THEN alloc.count ELSE color_count
             /\ x_range' = widen(x_range, get_x_range(dataset, x_range_margin))
             /\ y_range' = widen(y_range, get_y_range(dataset, y_range_margin))
             /\ last' = call
             /\ UNCHANGED <<user_functions, user_functions_pars,
                            user_functions_names, user_functions_colors,
                            user_functions_count, labels, show_residuals,
                            bkfigure, bkres, process_vars, function_extents>>

----------------------------------------------------------------------------
(* Plot.add_function *)

\* Calling the user's function on the sampled x values with `args` as its
\* further arguments: a TypeError when their number is not the function's,
\* else the least and greatest value over np.linspace(lo, hi, 100), which
\* a linear function takes at the two ends.
Arity(function) == IF function = "f_id" THEN 0 ELSE 2

Call(function, args, lo, hi) ==
    IF Len(args) # Arity(function)
    THEN [raised |-> TRUE, min |-> 0, max |-> 0]
    ELSE LET at(x) == IF function = "f_id" THEN x ELSE args[1] + args[2] * x
         IN  [raised |-> FALSE,
              min |-> Min2(at(lo), at(hi)),
              max |-> Max2(at(lo), at(hi))]

\* a variant that hands every other form on as a sequence of parameters
ParsForm_lenient(pars) ==
    CASE pars.kind = "None" -> "none"
      [] pars.kind = "Measurement_Array" -> "measurement_array"
      [] OTHER -> "sequence"

\* the branch of lines 132-144 that `pars` takes
ParsForm(pars) ==
    CASE pars.kind = "None" -> "none"
      [] pars.kind = "Measurement_Array" -> "measurement_array"
      [] pars.kind \in {"list", "ndarray"} -> "sequence"
      [] OTHER -> "unrecognized"

\* the y range widened to the function's values and margin: lines 146-152
widen_y(range, fvals) ==
    LET fmax == fvals.max + y_range_margin
        fmin == fvals.min - y_range_margin
        hi   == IF fmax > range[2] THEN [range EXCEPT ![2] = fmax] ELSE range
    IN  IF fmin < hi[1] THEN [hi EXCEPT ![1] = fmin] ELSE hi

\* "userf_{}".format(self.user_functions_count) unless a name is given
function_name(name, count) ==
    IF name = None THEN "userf_" \o ToString(count) ELSE name

\* minmax_n once the Measurement_Array branch has run: restored to `recall`
\* on line 139, which an exception on line 137 or 138 skips
minmax_after(recall, raised) == IF raised THEN 1 ELSE recall

AddFunction(function, pars, name, color) ==
    LET form  == ParsForm(pars)
        fvals == Call(function, pars.vals, x_range[1], x_range[2])
        alloc == get_color_from_palette(color_count)
        call  == NoCall("add_function")
    IN  IF form = "unrecognized"
        THEN /\ last' = [call EXCEPT
                            !.msg = <<"Error: Not a recognized format for parameter">>]
             /\ UNCHANGED <<plot_vars, process_vars, function_extents>>
        ELSE IF fvals.raised
        THEN /\ minmax_n' = IF form = "measurement_array"
                            THEN minmax_after(minmax_n, TRUE) ELSE minmax_n
             /\ last' = [call EXCEPT !.exc = "TypeError"]
             /\ UNCHANGED <<plot_vars, bokeh_ouput_notebook_called,
                            output_notebook_calls, bokeh_output, in_notebook,
                            figures_created, function_extents>>
        ELSE /\ minmax_n' = IF form = "measurement_array"
                            THEN minmax_after(minmax_n, FALSE) ELSE minmax_n
             /\ y_range' = widen_y(y_range, fvals)
             /\ function_extents' =
                   Append(function_extents,
                          <<fvals.min - y_range_margin, fvals.max + y_range_margin>>)
             /\ user_functions' = Append(user_functions, function)
             /\ user_functions_pars' = Append(user_functions_pars, pars)
             /\ user_functions_names' =
                   Append(user_functions_names,
                          function_name(name, user_functions_count))
             /\ user_functions_count' = user_functions_count + 1
             /\ IF color = None
                THEN /\ color_count' = alloc.count
                     /\ IF alloc.raised
                        THEN /\ last' = [call EXCEPT !.exc = "IndexError"]
                             /\ UNCHANGED user_functions_colors
                        ELSE /\ last' = call
                             /\ user_functions_colors' =
                                   Append(user_functions_colors, alloc.color)
                ELSE /\ user_functions_colors' = Append(user_functions_colors, color)
                     /\ last' = call
                     /\ UNCHANGED color_count
             /\ UNCHANGED <<datasets, datasets_colors, x_range, labels,
                            show_residuals, bkfigure, bkres,
                            bokeh_ouput_notebook_called, output_notebook_calls,
                            bokeh_output, in_notebook, figures_created>>

----------------------------------------------------------------------------
(* Plot.set_plot_range *)

\* a variant without the test of the length
is_range_any_length(r) == r.kind \in {"list", "ndarray", "tuple"}

\* type(r) in ARRAY and len(r) is 2
is_range(r) == r.kind \in {"list", "ndarray", "tuple"} /\ Len(r.val) = 2

\* what lines 201-205 (207-211) print for one argument
range_message(r, axis) ==
    IF ~is_range(r) /\ r.kind # "None"
    THEN << axis \o " range must be a list containing a minimun and maximum value for the range of the plot." >>
    ELSE << >>

SetPlotRange(xr, yr) ==
    /\ x_range' = IF is_range(xr) THEN xr.val ELSE x_range
    /\ y_range' = IF is_range(yr) THEN yr.val ELSE y_range
    /\ last' = [NoCall("set_plot_range") EXCEPT
                   !.msg = range_message(xr, "X") \o range_message(yr, "Y")]
    /\ UNCHANGED <<datasets, datasets_colors, color_count, user_functions,
                   user_functions_pars, user_functions_names,
                   user_functions_colors, user_functions_count, labels,
                   show_residuals, bkfigure, bkres, process_vars,
                   function_extents>>

----------------------------------------------------------------------------
(* Plot.set_labels *)

\* the key of self.labels that set_labels writes for each of its arguments
label_key(argument) ==
    CASE argument = "title"     -> "title"
      [] argument = "xtitle"    -> "xtitle"
      [] argument = "ytitle"    -> "ytitle"
      [] argument = "data_name" -> "Data"

\* the dict after self.labels[key] = value
dict_set(dict, key, value) ==
    [k \in DOMAIN dict \cup {key} |-> IF k = key THEN value ELSE dict[k]]

set_label(dict, argument, value) ==
    IF value # None THEN dict_set(dict, label_key(argument), value) ELSE dict

SetLabels(title, xtitle, ytitle, data_name) ==
    /\ labels' = set_label(set_label(set_label(set_label(labels,
                     "title", title), "xtitle", xtitle), "ytitle", ytitle),
                     "data_name", data_name)
    /\ last' = NoCall("set_labels")
    /\ UNCHANGED <<datasets, datasets_colors, color_count, x_range, y_range,
                   user_functions, user_functions_pars, user_functions_names,
                   user_functions_colors, user_functions_count,
                   show_residuals, bkfigure, bkres, process_vars,
                   function_extents>>

----------------------------------------------------------------------------
(* Plot.add_residuals *)

AddResiduals ==
    /\ show_residuals' =
          IF datasets[Len(datasets)].nfits > 0 THEN TRUE ELSE show_residuals
    /\ last' = NoCall("add_residuals")
    /\ UNCHANGED <<datasets, datasets_colors, color_count, x_range, y_range,
                   user_functions, user_functions_pars, user_functions_names,
                   user_functions_colors, user_functions_count, labels,
                   bkfigure, bkres, process_vars,
                   function_extents>>

----------------------------------------------------------------------------
(* Plot.initialize_bokeh_figure and Plot.populate_bokeh_figure *)

RECURSIVE Flatten(_)
Flatten(seqs) ==
    IF seqs = <<>> THEN <<>> ELSE Head(seqs) \o Flatten(Tail(seqs))

Draw(call, fig, what, color) ==
    [call |-> call, fig |-> fig, what |-> what, color |-> color]

\* bp.figure(...) of lines 346-356: a new figure with the plot's ranges and labels
initialize_bokeh_figure(id) ==
    [ id |-> id, x_range |-> x_range, y_range |-> y_range,
      title |-> labels["title"], draws |-> <<>>, layout |-> "figure" ]

\* bp.figure(...) of lines 358-366: the figure of the residuals
initialize_residuals_figure(id) ==
    [ id |-> id, y_axis_label |-> "Residuals" ]

\* the number of parameters of the (linear) fit a dataset records
fit_npars == 2

\* the figures one pass of populate_bokeh_figure makes: lines 281-285
figures_needed == IF show_residuals THEN 2 ELSE 1

\* a variant that takes the i-th color of the palette
dataset_color_by_position(i) == color_palette[i]

\* the color populate_bokeh_figure draws the i-th dataset (function) with
dataset_color(i) == datasets_colors[i]
function_color(i) == user_functions_colors[i]

\* lines 290-320: what one pass of the loop over the datasets draws
dataset_draws(i) ==
    LET dataset == datasets[i]
        color   == dataset_color(i)
    IN  <<Draw("plot_dataset", "bkfigure", dataset.name, color)>>
        \o (IF dataset.nfits > 0
            THEN <<Draw("plot_function", "bkfigure", "fit of " \o dataset.name, color)>>
                 \o (IF i - 1 < 1
                     THEN [k \in 1..fit_npars |->
                             Draw("add_layout", "bkfigure", "fit_par_" \o ToString(k - 1), None)]
                     ELSE <<>>)
                 \o (IF show_residuals
                     THEN <<Draw("plot_dataset", "bkres", dataset.name, color)>>
                     ELSE <<>>)
            ELSE <<>>)

\* lines 328-333: what one pass of the loop over the user functions draws
function_draws(i) ==
    <<Draw("plot_function", "bkfigure", user_functions_names[i], function_color(i))>>

\* populate_bokeh_figure as far as it gets: the figures it made, the draw
\* calls it issued, and the IndexError of a dataset or function that has
\* no stored color
populate(next_id) ==
    LET nd   == Min2(Len(datasets), Len(datasets_colors))
        nf   == Min2(Len(user_functions), Len(user_functions_colors))
        dbad == Len(datasets) > Len(datasets_colors)
        fbad == Len(user_functions) > Len(user_functions_colors)
        ddraws == Flatten([i \in 1..nd |-> dataset_draws(i)])
        fdraws == Flatten([i \in 1..nf |-> function_draws(i)])
        draws  == IF dbad THEN ddraws ELSE ddraws \o fdraws
        raised == dbad \/ fbad
        fig    == [initialize_bokeh_figure(next_id) EXCEPT !.draws = draws]
    IN  [ bkfigure |-> IF show_residuals /\ ~raised
                       THEN [fig EXCEPT !.layout = "gridplot"] ELSE fig,
          bkres    |-> IF show_residuals
                       THEN initialize_residuals_figure(next_id + 1) ELSE bkres,
          created  |-> figures_needed,
          exc      |-> IF raised THEN "IndexError" ELSE None ]

PopulateBokehFigure ==
    LET r == populate(figures_created + 1)
    IN  /\ bkfigure' = r.bkfigure
        /\ bkres' = r.bkres
        /\ figures_created' = figures_created + r.created
        /\ last' = [NoCall("populate_bokeh_figure") EXCEPT !.exc = r.exc]
        /\ UNCHANGED <<datasets, datasets_colors, color_count, x_range, y_range,
                       user_functions, user_functions_pars, user_functions_names,
                       user_functions_colors, user_functions_count, labels,
                       show_residuals, minmax_n, bokeh_ouput_notebook_called,
                       output_notebook_calls, bokeh_output, in_notebook,
                       function_extents>>

----------------------------------------------------------------------------
(* Plot.set_bokeh_output and Plot.show *)

\* self.attributes, which line 266 reads: Plot sets no such attribute
has_attributes == FALSE

\* set_bokeh_output without the test of line 267: bi.output_notebook() is
\* called on every inline call in a notebook
set_bokeh_output_every_time(output) ==
    IF output = "file" \/ ~in_notebook
    THEN IF has_attributes
         THEN [exc |-> None, called |-> bokeh_ouput_notebook_called,
               calls |-> output_notebook_calls, channel |-> "Plot.html"]
         ELSE [exc |-> "AttributeError", called |-> bokeh_ouput_notebook_called,
               calls |-> output_notebook_calls, channel |-> bokeh_output]
    ELSE [exc |-> None, called |-> TRUE,
          calls |-> output_notebook_calls + 1, channel |-> "notebook"]

\* set_bokeh_output(output): the exception it raises, and the process-wide
\* flag, the count of bi.output_notebook() calls and the channel after it
set_bokeh_output(output) ==
    IF output = "file" \/ ~in_notebook
    THEN IF has_attributes
         THEN [exc |-> None, called |-> bokeh_ouput_notebook_called,
               calls |-> output_notebook_calls, channel |-> "Plot.html"]
         ELSE [exc |-> "AttributeError", called |-> bokeh_ouput_notebook_called,
               calls |-> output_notebook_calls, channel |-> bokeh_output]
    ELSE IF ~bokeh_ouput_notebook_called
         THEN [exc |-> None, called |-> TRUE,
               calls |-> output_notebook_calls + 1, channel |-> "notebook"]
         ELSE [exc |-> None, called |-> bokeh_ouput_notebook_called,
               calls |-> output_notebook_calls, channel |-> bokeh_output]

SetBokehOutput(output) ==
    LET r == set_bokeh_output(output)
    IN  /\ bokeh_ouput_notebook_called' = r.called
        /\ output_notebook_calls' = r.calls
        /\ bokeh_output' = r.channel
        /\ last' = [NoCall("set_bokeh_output") EXCEPT !.exc = r.exc]
        /\ UNCHANGED <<plot_vars, minmax_n, in_notebook, figures_created,
                       function_extents>>

Show(output, populate_figure) ==
    LET r == set_bokeh_output(output)
        p == populate(figures_created + 1)
        call == NoCall("show")
    IN  /\ bokeh_ouput_notebook_called' = r.called
        /\ output_notebook_calls' = r.calls
        /\ bokeh_output' = r.channel
        /\ IF r.exc # None
           THEN /\ last' = [call EXCEPT !.exc = r.exc]
                /\ UNCHANGED <<bkfigure, bkres, figures_created>>
           ELSE IF populate_figure
           THEN /\ bkfigure' = p.bkfigure
                /\ bkres' = p.bkres
                /\ figures_created' = figures_created + p.created
                /\ last' = IF p.exc # None
                           THEN [call EXCEPT !.exc = p.exc]
                           ELSE [call EXCEPT !.shown = p.bkfigure.id]
           ELSE \* bp.show(self.bkfigure)
                /\ last' = IF bkfigure.id = 0
                           THEN [call EXCEPT !.exc = "AttributeError"]
                           ELSE [call EXCEPT !.shown = bkfigure.id]
                /\ UNCHANGED <<bkfigure, bkres, figures_created>>
        /\ UNCHANGED <<datasets, datasets_colors, color_count, x_range, y_range,
                       user_functions, user_functions_pars, user_functions_names,
                       user_functions_colors, user_functions_count, labels,
                       show_residuals, minmax_n, in_notebook, function_extents>>

----------------------------------------------------------------------------
(* Plot.show_linear_fit *)

\* lines 389-391: the ranges once the x range is extended to show the intercept
extend_to_intercept(dataset) ==
    IF x_range[1] > LinearFitXMin
    THEN [ x_range |-> [x_range EXCEPT ![1] = LinearFitXMin],
           y_range |-> [y_range EXCEPT ![1] = fit_function(dataset, LinearFitXMin)] ]
    ELSE [ x_range |-> x_range, y_range |-> y_range ]

ShowLinearFit(output) ==
    LET dataset == linear_fit(datasets[Len(datasets)])
        color   == datasets_colors[Len(datasets_colors)]
        rng     == extend_to_intercept(dataset)
        fig     == [ id |-> figures_created + 1,
                     x_range |-> rng.x_range, y_range |-> rng.y_range,
                     title |-> labels["title"],
                     draws |-> << Draw("plot_dataset", "bkfigure", dataset.name, color),
                                  Draw("plot_function", "bkfigure", "fit of " \o dataset.name, color) >>,
                     layout |-> "figure" ]
        r       == set_bokeh_output(output)
    IN  /\ datasets' = [datasets EXCEPT ![Len(datasets)] = dataset]
        /\ x_range' = rng.x_range
        /\ y_range' = rng.y_range
        /\ bkfigure' = fig
        /\ figures_created' = figures_created + 1
        /\ bokeh_ouput_notebook_called' = r.called
        /\ output_notebook_calls' = r.calls
        /\ bokeh_output' = r.channel
        /\ last' = [NoCall("show_linear_fit") EXCEPT
                       !.msg = IF Len(datasets) > 1
                               THEN <<"Warning: only using the last added dataset, and clearing previous fits">>
                               ELSE <<>>,
                       !.exc = r.exc,
                       !.shown = IF r.exc = None THEN fig.id ELSE 0]
        /\ UNCHANGED <<datasets_colors, color_count, user_functions,
                       user_functions_pars, user_functions_names,
                       user_functions_colors, user_functions_count, labels,
                       show_residuals, bkres, minmax_n, in_notebook,
                       function_extents>>

----------------------------------------------------------------------------
(* The specifications *)

\* the datasets and functions the Plot was given after its constructor
Items == Len(datasets) - 1 + Len(user_functions)

\* Spec: the bookkeeping of a Plot. Datasets and functions are added in
\* every form of their arguments, and the range is set.
Next ==
    \/ \E d \in DataSets, c \in Colors :
          Items < MaxItems /\ AddDataset(d, c, None)
    \/ \E f \in Functions, p \in ParsArgs, n \in Names, c \in Colors :
          Items < MaxItems /\ AddFunction(f, p, n, c)
    \/ \E xr \in RangeArgs, yr \in RangeArgs : SetPlotRange(xr, yr)

Spec == Init /\ [][Next]_vars

\* SpecLabels: the labels of a Plot
NextLabels ==
    \/ \E t \in LabelArgs, x \in LabelArgs, y \in LabelArgs, d \in LabelArgs :
          SetLabels(t, x, y, d)
    \/ \E d \in DataSets, n \in Names : NewPlot(d, n)

SpecLabels == Init /\ [][NextLabels]_vars

\* SpecRender: a Plot is filled and rendered
NextRender ==
    \/ \E d \in DataSets, c \in Colors :
          Items < MaxItems /\ AddDataset(d, c, None)
    \/ \E c \in Colors :
          Items < MaxItems /\ AddFunction("f_id", NoPars, None, c)
    \/ AddResiduals
    \/ figures_created + figures_needed <= MaxFigures /\ PopulateBokehFigure
    \/ \E o \in Outputs : SetBokehOutput(o)
    \/ \E o \in Outputs, pf \in BOOLEAN :
          figures_created + figures_needed <= MaxFigures /\ Show(o, pf)
    \/ \E o \in Outputs : figures_created + 1 <= MaxFigures /\ ShowLinearFit(o)
    \/ \E d \in DataSets : NewPlot(d, None)

SpecRender == Init /\ [][NextRender]_vars

\* SpecPalette: datasets and functions are added with no color given, until
\* the palette is used up
NextPalette ==
    \/ \E d \in PaletteDataSets :
          color_count < MaxAutoColors /\ AddDataset(d, None, None)
    \/ color_count < MaxAutoColors /\ AddFunction("f_id", NoPars, None, None)

SpecPalette == Init /\ [][NextPalette]_vars

----------------------------------------------------------------------------
(* Claims *)

\* the stored ranges enclose the range `r`
x_encloses(r) == x_range[1] <= r[1] /\ x_range[2] >= r[2]
y_encloses(r) == y_range[1] <= r[1] /\ y_range[2] >= r[2]

\* the stored y range encloses every dataset's y extent, margin included
y_encloses_datasets ==
    \A i \in 1..Len(datasets) : y_encloses(get_y_range(datasets[i], y_range_margin))

(* C1: after any sequence of add_dataset and add_function calls, the       *)
(* stored x_range and y_range enclose the margin-padded x and y extent of  *)
(* every dataset added so far (the constructor's included) and the         *)
(* margin-padded y extent every added function had, over the x range that  *)
(* was current, when it was added.                                         *)
C1_RangeEnclosesAll ==
    /\ \A i \in 1..Len(datasets) :
          /\ x_encloses(get_x_range(datasets[i], x_range_margin))
          /\ y_encloses(get_y_range(datasets[i], y_range_margin))
    /\ \A i \in 1..Len(function_extents) : y_encloses(function_extents[i])

\* the color the last add_dataset or add_function call stored
stored_color ==
    IF last.op = "add_dataset"
    THEN datasets_colors[Len(datasets_colors)]
    ELSE user_functions_colors[Len(user_functions_colors)]

(* C2: the k-th automatic color request of a Plot (the constructor's is    *)
(* the first) returns palette[(k-1) mod paletteSize] and increments the    *)
(* counter, and past the palette's size it wraps around and raises         *)
(* nothing. (In SpecPalette every add_dataset and add_function call is     *)
(* such a request.)                                                        *)
C2_CyclicAllocation ==
    [][ /\ color_count = 1 => datasets_colors = <<color_palette[1]>>
        /\ last'.op \in {"add_dataset", "add_function"} =>
              /\ color_count' = color_count + 1
              /\ last'.exc = None
              /\ stored_color' =
                    color_palette[((color_count' - 1) % Len(color_palette)) + 1]
      ]_vars

(* C6 as amended: on a freshly constructed Plot, two add_function calls in *)
(* a row with no color given store two distinct colors, palette[1] for the *)
(* first and palette[2] for the second: palette[0] went to the dataset of  *)
(* the constructor.                                                        *)
C6_TwoFunctionsAfterDataset ==
    (Len(datasets) = 1 /\ Len(user_functions) = 2) =>
        /\ user_functions_colors = <<color_palette[2], color_palette[3]>>
        /\ user_functions_colors[1] # user_functions_colors[2]
        /\ datasets_colors = <<color_palette[1]>>

\* a new Plot was given two functions, and nothing else
C6_Witness ==
    /\ Len(datasets) = 1
    /\ Len(user_functions) = 2
    /\ Len(user_functions_colors) = 2
    /\ last.op = "add_function"

(* C6 as claimed: on a freshly constructed Plot, two add_function calls in *)
(* a row with no color given store palette[0], then palette[1].            *)
C6_AsClaimed ==
    (Len(datasets) = 1 /\ Len(user_functions) = 2) =>
        /\ user_functions_colors = <<color_palette[1], color_palette[2]>>
        /\ user_functions_colors[1] # user_functions_colors[2]

\* a range argument that is an array of two elements / that is given
two_element_array(r) == r.kind = "list" /\ Len(r.val) = 2
given(r) == r.kind # "None"

\* how many of the two range arguments are given and are no two-element array
bad_ranges(xr, yr) ==
    (IF given(xr) /\ ~two_element_array(xr) THEN 1 ELSE 0)
    + (IF given(yr) /\ ~two_element_array(yr) THEN 1 ELSE 0)

(* C3: set_plot_range overwrites a stored range only when the argument for *)
(* it is an array of two elements, and then stores that array; an argument *)
(* of another length or type leaves the stored range as it was and is      *)
(* reported in a printed message; the call raises nothing.                 *)
C3_SetPlotRange ==
    [][ last'.op = "set_plot_range" =>
        \A xr \in RangeArgs, yr \in RangeArgs :
          SetPlotRange(xr, yr) =>
             /\ two_element_array(xr) => x_range' = xr.val
             /\ ~two_element_array(xr) => x_range' = x_range
             /\ two_element_array(yr) => y_range' = yr.val
             /\ ~two_element_array(yr) => y_range' = y_range
             /\ Len(last'.msg) = bad_ranges(xr, yr)
             /\ last'.exc = None
      ]_vars

\* set_plot_range was given an argument it reported, and the ranges are
\* still those of the constructor's dataset
C3_Witness ==
    /\ last.op = "set_plot_range"
    /\ Len(last.msg) > 0
    /\ Len(datasets) = 1
    /\ x_range = get_x_range(datasets[1], x_range_margin)
    /\ y_range = get_y_range(datasets[1], y_range_margin)

(* C4: add_function given parameters that are neither None, nor a          *)
(* Measurement_Array, nor a list or ndarray prints its message and changes *)
(* none of user_functions, user_functions_pars, user_functions_names,      *)
(* user_functions_colors, user_functions_count, color_count, x_range and   *)
(* y_range; it raises nothing.                                             *)
C4_UnrecognizedParsNoOp ==
    [][ last'.op = "add_function" =>
        \A f \in Functions, p \in ParsArgs, n \in Names, c \in Colors :
          ( /\ p.kind \notin {"None", "Measurement_Array", "list", "ndarray"}
            /\ AddFunction(f, p, n, c) ) =>
             /\ UNCHANGED <<user_functions, user_functions_pars,
                            user_functions_names, user_functions_colors,
                            user_functions_count, color_count, x_range, y_range>>
             /\ last'.exc = None
             /\ last'.msg = <<"Error: Not a recognized format for parameter">>
      ]_vars

\* add_function printed its message about the parameters
C4_Witness ==
    /\ last.op = "add_function"
    /\ last.msg = <<"Error: Not a recognized format for parameter">>
    /\ last.exc = None

(* C5: every add_function call given a Measurement_Array leaves            *)
(* Measurement.minmax_n at the value it had before the call, however the   *)
(* call ends, also when evaluating the user's function fails.              *)
C5_MinmaxRestored ==
    [][ \A f \in Functions, p \in ParsArgs, n \in Names, c \in Colors :
          (p.kind = "Measurement_Array" /\ AddFunction(f, p, n, c)) =>
             minmax_n' = minmax_n
      ]_vars

(* C7: set_labels merges field by field into the labels the constructor    *)
(* made: each argument given overwrites its own entry (data_name the       *)
(* entry "data"), each entry whose argument is absent keeps its value, and *)
(* the set of keys is the same before and after the call.                  *)
C7_FieldByFieldMerge ==
    [][ \A t \in LabelArgs, x \in LabelArgs, y \in LabelArgs, d \in LabelArgs :
          SetLabels(t, x, y, d) =>
             /\ DOMAIN labels' = DOMAIN labels
             /\ labels'["title"]  = IF t # None THEN t ELSE labels["title"]
             /\ labels'["xtitle"] = IF x # None THEN x ELSE labels["xtitle"]
             /\ labels'["ytitle"] = IF y # None THEN y ELSE labels["ytitle"]
             /\ labels'["data"]   = IF d # None THEN d ELSE labels["data"]
      ]_vars

\* the draw calls of `fig` that plot a dataset's points on the main figure
points_drawn(fig) ==
    SelectSeq(fig.draws, LAMBDA d : d.call = "plot_dataset" /\ d.fig = "bkfigure")

\* the last n draw calls of `fig`
last_drawn(fig, n) == SubSeq(fig.draws, Len(fig.draws) - n + 1, Len(fig.draws))

C9_FileChannelSelected ==
    [][ \A o \in Outputs :
          ( /\ o = "file" \/ ~in_notebook
            /\ SetBokehOutput(o) \/ Show(o, TRUE) ) =>
             /\ last'.exc = None
             /\ bokeh_output' = "Plot.html"
      ]_vars

(* C10: show_linear_fit only widens the ranges: when it returns,           *)
(* x_range[0] <= -0.5, x_range[1] is as before, y_range[0] <= y_range[1]   *)
(* still holds and y_range still encloses the margin-padded y extent of    *)
(* every dataset, whatever the slope of the fit.                           *)
C10_OnlyWidens ==
    [][ \A o \in Outputs :
          ( /\ ShowLinearFit(o)
            /\ last'.exc = None
            /\ y_range[1] <= y_range[2]
            /\ y_encloses_datasets ) =>
             /\ x_range'[1] <= LinearFitXMin
             /\ x_range'[2] = x_range[2]
             /\ y_range'[1] <= y_range'[2]
             /\ y_encloses_datasets'
      ]_vars


\* the step is a set_bokeh_output, show or show_linear_fit call that takes
\* the inline path in a notebook (line 267 onwards)
inline_notebook_call ==
    /\ in_notebook
    /\ \/ SetBokehOutput("inline")
       \/ \E pf \in BOOLEAN : Show("inline", pf)
       \/ ShowLinearFit("inline")

(* C11: over any sequence of calls on any number of Plot objects, the      *)
(* first set_bokeh_output, show or show_linear_fit call that takes the     *)
(* inline path in a notebook calls bi.output_notebook() and sets the       *)
(* process-wide flag bokeh_ouput_notebook_called from false to true; every *)
(* later such call calls nothing, so the channel is initialised exactly    *)
(* once; and no operation sets the flag back to false.                     *)
C11_NotebookOutputOnce ==
    [][ /\ bokeh_ouput_notebook_called => bokeh_ouput_notebook_called'
        /\ inline_notebook_call =>
              /\ bokeh_ouput_notebook_called'
              /\ output_notebook_calls' =
                    IF bokeh_ouput_notebook_called
                    THEN output_notebook_calls
                    ELSE output_notebook_calls + 1
        /\ ~inline_notebook_call =>
              /\ bokeh_ouput_notebook_called' = bokeh_ouput_notebook_called
              /\ output_notebook_calls' = output_notebook_calls
        /\ output_notebook_calls' = IF bokeh_ouput_notebook_called' THEN 1 ELSE 0
      ]_vars

\* in a notebook the channel has been initialised, once, and a show that
\* took the inline path has displayed a figure that is not the first one
\* this process created
C11_Witness ==
    /\ in_notebook
    /\ bokeh_ouput_notebook_called
    /\ output_notebook_calls = 1
    /\ bokeh_output = "notebook"
    /\ last.op = "show"
    /\ last.exc = None
    /\ last.shown >= 2

=========================================================================
